---- MODULE Spec2Model ----
(***************************************************************************)
(* A state-machine model of the opengl-playground scenes: the two blur     *)
(* compositors (dual-filter Kawase, two-axis ping-pong) and the reactive   *)
(* quad grid.  GL objects are modelled by what the scenes do with them:    *)
(* a framebuffer is a named render target with a size, a draw call is an   *)
(* entry of the frame's command log (what it samples, what it writes).     *)
(***************************************************************************)
EXTENDS Integers, Sequences, FiniteSets, TLC

VARIABLES
    variant,        \* which compositor scene is running: "kawase" or "blurring"
    blur,           \* BlurParams of the scene
    gura_size,      \* size of the decoded source image, <<w, h>>
    composite_fbs,  \* the render-target chain: one record [size, name] per RESDIVS entry
    fb_created,     \* number of create_framebuffer calls made so far
    viewport,       \* the scene's viewport field, <<w, h>>
    win_viewport,   \* App.viewport, set by the window's Resized event
    matrix,         \* the scene's matrix field
    camera,         \* the scene controller's camera
    pc,             \* position of the frame: idle, resized, seeded, down, up, blit, composited, panic
    input_fb,       \* the local input_fb of draw_with_clear_color (a target name)
    todo,           \* the framebuffer indices the running loop has still to visit
    texture,        \* the local texture of draw_with_clear_color
    log,            \* the draw calls issued by the current frame, in order
    nkeys,          \* number of key events handled so far
    quads,          \* RoundQuadsScene.quads: index -> Quad
    vertices,       \* RoundQuadsScene.vertices: index -> the quad's vertex data (CPU side)
    gpu,            \* the contents of the vertex buffer object, per quad
    area_width,     \* RoundQuadsScene.area_width
    mouse_pos,      \* App.mouse_pos, the pointer in pixels
    world_mouse,    \* the local mouse_pos of draw: the pointer in world space
    dt,             \* the local dt of draw, in seconds
    rect,           \* the locals <<x_beg, x_end, y_beg, y_end>> of draw
    uploads,        \* the BufferSubData calls of the current frame: [offset, size] in bytes
    drawn,          \* the vertex buffer as the frame's draw call rendered it
    prev,           \* quads, vertices and gpu as they were when the frame's draw began
    frames,         \* number of frames drawn so far
    ctrl,           \* the SceneController's fields other than its camera
    hist,           \* what has happened so far: the last button event, the events counted
    call,           \* the last call of a pure function: its arguments and its results
    debug           \* DEBUG_ENABLED, and the debug groups open in the GL context

blurVars == <<variant, blur, gura_size, composite_fbs, fb_created, viewport,
              win_viewport, matrix, camera, pc, input_fb, todo, texture, log, nkeys,
              debug>>

blurVarsButPc ==
    <<variant, blur, gura_size, composite_fbs, fb_created, viewport, win_viewport,
      matrix, camera, input_fb, todo, texture, log, nkeys, debug>>

quadVars == <<quads, vertices, gpu, area_width, mouse_pos, world_mouse, dt, rect,
              uploads, drawn, prev, frames>>

appVars == <<ctrl, hist, call>>

vars == <<blurVars, quadVars, appVars>>

----------------------------------------------------------------------------
(* Bounds of the model *)

\* key events handled in one behaviour
MaxKeys == 5

\* image sizes the source image may decode to
GuraSizes == {<<64, 48>>, <<200, 100>>}

\* window sizes a Resized event may report
WinSizes == {<<800, 600>>, <<800, 800>>}

\* number of quads of the grid (100_000 in round_quads.rs; the grid is
\* floor(sqrt(N_QUADS)) wide, and the quads beyond its square fill one more,
\* partial row)
N_QUADS == 11

\* frames drawn in one behaviour
MaxFrames == 2
MaxScrolls == 1
MaxWidth == 6
ScaleFactors == {1}
WheelDeltas == {0 - 2, 2}
Advances == {0, 1000, 3175}
Pointers == {<<400, 400>>, <<376, 424>>}
PointerCoords == {0 - 100000, 0 - 340, 0 - 300, 0, 8, 300, 340, 100000}
WorldCoords == {0 - 100000, 0 - 1000, 0 - 41, 0 - 40, 0 - 8, 0, 7, 8, 9, 24, 40, 1000, 100000}
CameraPositions == {<<0, 0>>, <<10, 0 - 6>>}
WorldPoints == {<<0, 0>>, <<2, 4>>, <<0 - 24, 24>>}
Radii == {0, 1, 2, 3, 20, 319, 320}
Kernels == {0, 1, 5, 63, 64}
LayerCounts == {0, 4, 6}

\* pointer positions, in pixels, a CursorMoved event may report
MousePositions ==
    {<<400, 400>>, <<376, 424>>, <<704, 400>>, <<720, 400>>, <<800, 800>>, <<16, 300>>}

\* seconds elapsed between two draws
Dts == {0, 1}

\* seeds of the random generator the quads are drawn from
Seeds == {0, 1}

----------------------------------------------------------------------------
(* Helpers *)

Min(a, b) == IF a < b THEN a ELSE b

Max(a, b) == IF a > b THEN a ELSE b

\* const RESDIVS: &[u32] = &[2, 4, 8, 16, 32, 64];
RESDIVS == <<2, 4, 8, 16, 32, 64>>

\* target names; the level is the 0-based index into composite_fbs
GuraTexture == <<"gura", 0>>

Screen == <<"screen", 0>>

Composite(k) == <<"composite", k>>

PingPong(k) == <<"ping_pong", k>>

NoTarget == <<"none", 0>>

\* create_framebuffer(name, size): a fresh target of the given size
CreateFramebuffer(size) == [size |-> size]

\* a variation of CreateChain: every target at the full size
CreateChainFullSize(size) == [k \in 1..Len(RESDIVS) |-> CreateFramebuffer(size)]

\* the chain built by new(): gura_size / resdiv for every resdiv (UVec2 / u32)
CreateChain(size) ==
    [k \in 1..Len(RESDIVS) |->
        CreateFramebuffer(<<size[1] \div RESDIVS[k], size[2] \div RESDIVS[k]>>)]

\* the unit of camera.scale and hard_scale: 1.0.  The wheel halves or doubles
\* hard_scale, so that every scale is a whole number of 1 / ScaleUnit
ScaleUnit == 2 ^ MaxScrolls

\* Camera::default(): Vec2::ZERO, 0.0, Vec2::ONE.  rotation is kept in
\* quarter turns
DefaultCamera == [position |-> <<0, 0>>, rotation |-> 0, scale |-> <<ScaleUnit, ScaleUnit>>]

\* Camera::matrix(viewport): a function of the camera and the viewport
CameraMatrix(cam, vp) == [camera |-> cam, viewport |-> vp]

\* Mat4::default()
MatDefault == [camera |-> DefaultCamera, viewport |-> <<0, 0>>]

----------------------------------------------------------------------------
(* Blur parameters and key handling.  radius is kept in tenths, the step    *)
(* of the arrow keys (0.1): radius = 20 stands for 2.0.                      *)

\* kawase.rs: default blur parameters
KawaseDefaults == [radius |-> 10, layers |-> 1, is_dithered |-> FALSE]

\* blurring.rs: default blur parameters
BlurringDefaults ==
    [kernel |-> 5, layers |-> 4, radius |-> 20, is_diagonal |-> FALSE, is_dithered |-> FALSE]

\* *RESDIVS.last().unwrap() as f32 / 2.0, in tenths
RadiusMax == (RESDIVS[Len(RESDIVS)] * 10) \div 2

\* the logical keys a key event may carry; "other" stands for every key no arm matches
Keys == {"ArrowUp", "ArrowDown", "ArrowRight", "ArrowLeft", "d", "D", "/", "l", "L", "other"}

\* usize::saturating_sub(1)
SaturatingSub1(n) == IF n = 0 THEN 0 ELSE n - 1

\* a variation of KawaseLayersInc: clamped to the chain length, not below it
KawaseLayersIncToLen(layers) == Min(layers + 1, Len(RESDIVS))

\* kawase.rs "l": (self.blur.layers + 1).min(5)
KawaseLayersInc(layers) == Min(layers + 1, 5)

\* blurring.rs "l": (self.blur.layers + 1).min(RESDIVS.len())
BlurringLayersInc(layers) == Min(layers + 1, Len(RESDIVS))

\* a variation of KernelDec: no lower limit
KernelDecUnclamped(kernel) == kernel - 1

\* blurring.rs ArrowDown: (self.blur.kernel - 1).max(0), on i32
KernelDec(kernel) == Max(kernel - 1, 0)

\* KawaseScene::on_key: the parameters after the key
KawaseOnKey(b, key) ==
    CASE key = "ArrowRight" -> [b EXCEPT !.radius = Min(b.radius + 1, RadiusMax)]
      [] key = "ArrowLeft"  -> [b EXCEPT !.radius = Max(b.radius - 1, 2)]
      [] key \in {"d", "D"} -> [b EXCEPT !.is_dithered = ~b.is_dithered]
      [] key = "l"          -> [b EXCEPT !.layers = KawaseLayersInc(b.layers)]
      [] key = "L"          -> [b EXCEPT !.layers = SaturatingSub1(b.layers)]
      [] OTHER              -> b

\* BlurringScene::on_key: the parameters after the key
BlurringOnKey(b, key) ==
    CASE key = "ArrowUp"    -> [b EXCEPT !.kernel = Min(b.kernel + 1, 64)]
      [] key = "ArrowDown"  -> [b EXCEPT !.kernel = KernelDec(b.kernel)]
      [] key = "ArrowRight" -> [b EXCEPT !.radius = Min(b.radius + 1, RadiusMax)]
      [] key = "ArrowLeft"  -> [b EXCEPT !.radius = Max(b.radius - 1, 0)]
      [] key \in {"d", "D"} -> [b EXCEPT !.is_dithered = ~b.is_dithered]
      [] key = "/"          -> [b EXCEPT !.is_diagonal = ~b.is_diagonal]
      [] key = "l"          -> [b EXCEPT !.layers = BlurringLayersInc(b.layers)]
      [] key = "L"          -> [b EXCEPT !.layers = SaturatingSub1(b.layers)]
      [] OTHER              -> b

----------------------------------------------------------------------------
(* The pass sequencer: which chain indices the loops of                     *)
(* draw_with_clear_color visit, in order.                                    *)

\* the value a usize subtraction that would go below zero stands for: the
\* debug build panics at the subtraction, the release build wraps to a value
\* no chain is long enough for, and panics at the index
Overflowed == 0 - 1

\* a variation of FastPath: the zero-layer path is never taken
NeverFastPath(layers) == FALSE

\* kawase.rs: if self.blur.layers == 0 / blurring.rs: if self.blur.layers == 0
FastPath(layers) == layers = 0

\* kawase.rs: for fbi in 1..=self.blur.layers
KawaseDownFbis(layers) == [i \in 1..layers |-> i]

\* a variation of KawaseUpFbis: the loop stops one level above the finest
KawaseUpFbisShort(layers) == [i \in 1..(layers - 1) |-> layers - i]

\* a variation of KawaseUpFbis: the range is walked without .rev()
KawaseUpFbisForward(layers) == [i \in 1..layers |-> i - 1]

\* kawase.rs: for fbi in (0..self.blur.layers).rev()
KawaseUpFbis(layers) == [i \in 1..layers |-> layers - i]

\* blurring.rs: for fbi in 0..self.blur.layers
BlurringDownFbis(layers) == [i \in 1..layers |-> i - 1]

\* blurring.rs: for fbi in (0..(self.blur.layers - 1)).rev()
BlurringUpFbis(layers) ==
    IF layers = 0 THEN <<Overflowed>>
    ELSE [i \in 1..(layers - 1) |-> layers - 1 - i]

DownFbis(v, layers) ==
    IF v = "kawase" THEN KawaseDownFbis(layers) ELSE BlurringDownFbis(layers)

UpFbis(v, layers) ==
    IF v = "kawase" THEN KawaseUpFbis(layers) ELSE BlurringUpFbis(layers)

\* &self.composite_fbs[fbi] does not panic
ValidIndex(fbi) == fbi \in 0..(Len(composite_fbs) - 1)

\* a variation of KawaseSampled: the pass samples the target it draws into
KawaseSampledOutput(from_fb, to_fb) == to_fb

\* gl::BindTexture(gl::TEXTURE_2D, from_fb.texture) in kawase_pass
KawaseSampled(from_fb, to_fb) == from_fb

\* kawase_pass(distance, upsample, from_fb, to_fb): the draw call it issues.
\* distance is in twentieths (radius * 0.5 of a radius in tenths)
KawasePass(distance, upsample, from_fb, to_fb, phase) ==
    <<[phase |-> phase, level |-> to_fb[2], shader |-> "kawase",
       read |-> KawaseSampled(from_fb, to_fb), write |-> to_fb,
       upsample |-> upsample, distance |-> distance]>>

\* ping_pong_blur_pass(angle, from_fb, composite_fb, ping_pong_fb): the two
\* draw calls it issues, X-blurring into the ping-pong target, then
\* Y-blurring back into the composite target
PingPongBlurPass(angle, from_fb, composite_fb, ping_pong_fb, phase, b) ==
    <<[phase |-> phase, level |-> composite_fb[2], shader |-> "blur",
       read |-> from_fb, write |-> ping_pong_fb,
       kernel |-> b.kernel, radius |-> b.radius, angle |-> <<angle, "x">>],
      [phase |-> phase, level |-> composite_fb[2], shader |-> "blur",
       read |-> ping_pong_fb, write |-> composite_fb,
       kernel |-> b.kernel, radius |-> b.radius, angle |-> <<angle, "y">>]>>

\* let angles = if self.blur.is_diagonal { &[PI / 4.0] } else { &[0.0] }
Angles(b) == IF b.is_diagonal THEN <<"pi/4">> ELSE <<"0">>

\* the seed draw: the source image drawn into composite_fbs[0]
SeedPass ==
    <<[phase |-> "seed", level |-> 0, shader |-> "comp",
       read |-> GuraTexture, write |-> Composite(0)]>>

\* the final draw of the texture to the screen
BlitPass(tex, b) ==
    <<[phase |-> "blit", level |-> 0,
       shader |-> IF b.is_dithered THEN "dither" ELSE "quad",
       read |-> tex, write |-> Screen]>>

\* a variation of FinalTexture: the source image is blitted whatever was blurred
FinalTextureSource(last_fb) == GuraTexture

\* the value of the if/else of draw_with_clear_color on the blurring path: input_fb.texture
FinalTexture(last_fb) == last_fb

\* where the sequencer continues once the downsampling loop is over
EnterUp(v, layers, last_fb) ==
    IF UpFbis(v, layers) = <<>>
    THEN [pc |-> "blit", todo |-> <<>>, texture |-> FinalTexture(last_fb)]
    ELSE [pc |-> "up", todo |-> UpFbis(v, layers), texture |-> NoTarget]

\* where the sequencer continues once the seed draw is done
EnterDown(v, layers, last_fb) ==
    IF DownFbis(v, layers) = <<>>
    THEN EnterUp(v, layers, last_fb)
    ELSE [pc |-> "seeded", todo |-> DownFbis(v, layers), texture |-> NoTarget]

\* a variation of LoopPass: the Kawase passes of both loops are issued as
\* the downsampling loop issues them
LoopPassAllDown(v, b, phase, from_fb, fbi) ==
    IF v = "kawase"
    THEN KawasePass(2 * b.radius, FALSE, from_fb, Composite(fbi), phase)
    ELSE PingPongBlurPass(Angles(b)[1], from_fb, Composite(fbi), PingPong(fbi), phase, b)

\* the draw calls of one iteration of a loop, visiting chain index fbi
LoopPass(v, b, phase, from_fb, fbi) ==
    IF v = "kawase"
    THEN KawasePass(IF phase = "up" THEN b.radius ELSE 2 * b.radius,
                    phase = "up", from_fb, Composite(fbi), phase)
    ELSE PingPongBlurPass(Angles(b)[1], from_fb, Composite(fbi), PingPong(fbi), phase, b)

----------------------------------------------------------------------------
(* The quad grid.  World coordinates are integers (the lattice points are    *)
(* multiples of 8).  Intensities are kept in units of 1 / (2 * radius), so    *)
(* that the baseline 0.5 and the emitted 2 * intensity + 0.5 are integers;    *)
(* rotations in units of PI / radius, so that dt * PI * 2 * intensity is one. *)

\* let surround_radius = 320.0
SurroundRadius == 320

\* the unit of the emitted intensities: 1.0
IntensityUnit == 2 * SurroundRadius

\* the baseline intensity 0.5 of quad.vertices(0.5)
Half == IntensityUnit \div 2

\* f32::sqrt(n) as u32, for n >= 0: the integer part of the square root
Isqrt(n) == CHOOSE r \in 0..n : r * r <= n /\ (r + 1) * (r + 1) > n

\* let area_width = (N_QUADS as f32).sqrt() as u32
AreaWidth == Isqrt(N_QUADS)

\* f32::round of n / d, d > 0: to the nearest integer, halves away from zero
Round(n, d) ==
    IF n >= 0 THEN (2 * n + d) \div (2 * d) ELSE 0 - ((2 * (0 - n) + d) \div (2 * d))

\* f32::clamp(lo, hi)
Clamp(v, lo, hi) == IF v < lo THEN lo ELSE IF v > hi THEN hi ELSE v

\* a variation of PosFromGridIdx: the lattice starts at the origin
PosFromGridIdxCorner(x, y, aw) == <<x * 16, y * 16>>

\* Quad::pos_from_grid_idx: (vec2(x, y) - area_width * 0.5) * 16.0
PosFromGridIdx(x, y, aw) == <<((2 * x - aw) * 16) \div 2, ((2 * y - aw) * 16) \div 2>>

\* the index of a grid cell: let i = (y * self.area_width + x) as usize
IdxFromGridIdx(x, y, aw) == y * aw + x

\* a variation of GridIdxFromIdx: the quotient first
GridIdxFromIdxSwapped(i, aw) == <<i \div aw, i % aw>>

\* the grid cell of an index: (i % area_width, i / area_width)
GridIdxFromIdx(i, aw) == <<i % aw, i \div aw>>

\* Quad::pos_from_idx
PosFromIdx(i, aw) == PosFromGridIdx(GridIdxFromIdx(i, aw)[1], GridIdxFromIdx(i, aw)[2], aw)

\* a variation of ClosestGridIdxFromPos: the upper limit is the width
ClosestGridIdxUpToWidth(pos, aw) ==
    <<Clamp(Round(2 * pos[1] + 16 * aw, 32), 0, aw),
      Clamp(Round(2 * pos[2] + 16 * aw, 32), 0, aw)>>

\* Quad::closest_grid_idx_from_pos: pos / 16.0 + width * 0.5, each axis
\* rounded and clamped to [0, width - 1]
ClosestGridIdxFromPos(pos, aw) ==
    <<Clamp(Round(2 * pos[1] + 16 * aw, 32), 0, aw - 1),
      Clamp(Round(2 * pos[2] + 16 * aw, 32), 0, aw - 1)>>

\* Quad::random: the lattice position of the index, the other fields drawn
\* from the generator within their ranges
QuadRandom(seed, i, aw) ==
    [position      |-> PosFromIdx(i, aw),
     size          |-> <<10 + ((seed + i) % 11), 10 + ((seed + 3 * i) % 11)>>,
     rotation      |-> (seed * 101 + i * 37) % (2 * SurroundRadius),
     border_radius |-> 1 + ((seed + i) % 5),
     border_width  |-> 1 + ((seed + 2 * i) % 5),
     fill_color    |-> <<128 + ((seed + i) % 128), 128 + ((3 * i) % 128),
                         128 + ((5 * i) % 128), 255>>,
     stroke_color  |-> <<24 + ((seed + i) % 105), 24 + ((3 * i) % 105),
                         24 + ((5 * i) % 105), 128>>]

\* Quad::vertices(intensity): the four corners are the unit square scaled by
\* size, rotated by rotation and moved to position; every vertex carries the
\* quad's other fields and the intensity
QuadVertices(quad, intensity) ==
    [corners       |-> [position |-> quad.position, size |-> quad.size,
                        rotation |-> quad.rotation],
     size          |-> quad.size,
     fill_color    |-> quad.fill_color,
     stroke_color  |-> quad.stroke_color,
     border_radius |-> quad.border_radius,
     border_width  |-> quad.border_width,
     intensity     |-> intensity]

\* Mat4::from_rotation_z applied to v, for an angle of k quarter turns
RotateZ(v, k) ==
    CASE k % 4 = 0 -> v
      [] k % 4 = 1 -> <<0 - v[2], v[1]>>
      [] k % 4 = 2 -> <<0 - v[1], 0 - v[2]>>
      [] k % 4 = 3 -> <<v[2], 0 - v[1]>>

\* Camera::real_size: viewport / scale
RealSize(cam, vp) ==
    <<(vp[1] * ScaleUnit) \div cam.scale[1], (vp[2] * ScaleUnit) \div cam.scale[2]>>

\* Camera::pointer_to_pos: the pointer is scaled by 1 / scale, rotated by
\* -rotation, moved by -center_offset and moved by -position, in this order
PointerToPos(cam, pointer, vp) ==
    LET scaled2 == <<(2 * pointer[1] * ScaleUnit) \div cam.scale[1],
                     (2 * pointer[2] * ScaleUnit) \div cam.scale[2]>>
        rotated2 == RotateZ(scaled2, 0 - cam.rotation)
        size == RealSize(cam, vp)
    IN  <<(rotated2[1] - size[1]) \div 2 - cam.position[1],
          (rotated2[2] - size[2]) \div 2 - cam.position[2]>>

\* the screen position Camera::matrix gives a world point: the point is moved
\* by position, rotated by rotation and moved by the center offset; the
\* projection onto the viewport then multiplies by scale
WorldToScreen(cam, p, vp) ==
    LET rotated == RotateZ(<<p[1] + cam.position[1], p[2] + cam.position[2]>>, cam.rotation)
        size == RealSize(cam, vp)
    IN  <<((2 * rotated[1] + size[1]) * cam.scale[1]) \div (2 * ScaleUnit),
          ((2 * rotated[2] + size[2]) * cam.scale[2]) \div (2 * ScaleUnit)>>

\* the square of Vec2::distance(a, b)
Distance2(a, b) == (a[1] - b[1]) * (a[1] - b[1]) + (a[2] - b[2]) * (a[2] - b[2])

\* a variation of Falloff: without the .max(0.0)
FalloffUnclamped(position, pointer) == SurroundRadius - Isqrt(Distance2(position, pointer))

\* (surround_radius - distance).max(0.0) / surround_radius, in units of
\* 1 / surround_radius, a fraction of a unit counted as one: it is 0 exactly
\* when the distance is surround_radius or more
Falloff(position, pointer) ==
    LET d2 == Distance2(position, pointer)
    IN  IF d2 >= SurroundRadius * SurroundRadius THEN 0
        ELSE SurroundRadius -
             (CHOOSE r \in 0..SurroundRadius : r * r <= d2 /\ (r + 1) * (r + 1) > d2)

\* a variation of SurroundRect: the far corner is clamped to the width
SurroundRectUpToWidth(pointer, aw) ==
    LET beg == ClosestGridIdxFromPos(<<pointer[1] - SurroundRadius,
                                       pointer[2] - SurroundRadius>>, aw)
        end == ClosestGridIdxUpToWidth(<<pointer[1] + SurroundRadius,
                                         pointer[2] + SurroundRadius>>, aw)
    IN  <<beg[1], end[1], beg[2], end[2]>>

\* draw: (x_beg, y_beg) and (x_end, y_end), the cells closest to
\* mouse_pos - surround_area and to mouse_pos + surround_area, as
\* <<x_beg, x_end, y_beg, y_end>>
SurroundRect(pointer, aw) ==
    LET beg == ClosestGridIdxFromPos(<<pointer[1] - SurroundRadius,
                                       pointer[2] - SurroundRadius>>, aw)
        end == ClosestGridIdxFromPos(<<pointer[1] + SurroundRadius,
                                       pointer[2] + SurroundRadius>>, aw)
    IN  <<beg[1], end[1], beg[2], end[2]>>

\* a variation of RectCells: the row loop runs one row too far
RectCellsOneRowMore(r, aw) ==
    {IdxFromGridIdx(x, y, aw) : x \in r[1]..r[2], y \in r[3]..(r[4] + 1)}

\* the indices i = y * area_width + x the loops of draw compute:
\* for y in y_beg..=y_end, for x in x_beg..=x_end
RectCells(r, aw) == {IdxFromGridIdx(x, y, aw) : x \in r[1]..r[2], y \in r[3]..r[4]}

\* a variation of ReactQuad: the quad grows with the intensity as well
ReactQuadGrows(quad, pointer, elapsed) ==
    [quad EXCEPT !.rotation = quad.rotation + elapsed * 2 * Falloff(quad.position, pointer),
                 !.size = <<quad.size[1] + Falloff(quad.position, pointer), quad.size[2]>>]

\* the reactive update of one quad: its rotation advanced, and its vertex
\* data at the elevated intensity
ReactQuad(quad, pointer, elapsed) ==
    [quad EXCEPT !.rotation = quad.rotation + elapsed * 2 * Falloff(quad.position, pointer)]

\* quad.vertices(2.0 * intensity + 0.5)
ReactVertices(quad, pointer) ==
    QuadVertices(quad, 2 * (2 * Falloff(quad.position, pointer)) + Half)

\* a variation of ResetIntensity: the reset rebuilds at full intensity
ResetIntensityFull == IntensityUnit

\* the intensity of the reset pass: quad.vertices(0.5)
ResetIntensity == Half

\* size_of::<[Vertex; 4]>(): 4 vertices of 15 f32
QuadBytes == 4 * 15 * 4

\* a variation of UploadCalls: every call uploads the whole row of the grid
UploadCallsWholeRows(r, aw) ==
    [k \in 1..(r[4] - r[3] + 1) |->
        LET y == r[3] + k - 1
        IN  [offset |-> (y * aw) * QuadBytes, size |-> aw * QuadBytes]]

\* RoundQuadsScene::update_vertices: one BufferSubData call per row
UploadCalls(r, aw) ==
    [k \in 1..(r[4] - r[3] + 1) |->
        LET y == r[3] + k - 1
            i_beg == y * aw + r[1]
            i_end == y * aw + r[2]
        IN  [offset |-> i_beg * QuadBytes, size |-> (i_end - i_beg + 1) * QuadBytes]]

\* a variation of Upload: only the first call reaches the buffer
UploadFirstCall(buffer, cpu, calls) ==
    [i \in DOMAIN buffer |->
        IF /\ calls # <<>>
           /\ calls[1].offset <= i * QuadBytes
           /\ (i + 1) * QuadBytes <= calls[1].offset + calls[1].size
        THEN cpu[i] ELSE buffer[i]]

\* the vertex buffer after the calls: the bytes of each call come from the
\* same range of the CPU-side vertices
Upload(buffer, cpu, calls) ==
    [i \in DOMAIN buffer |->
        IF \E k \in DOMAIN calls :
              /\ calls[k].offset <= i * QuadBytes
              /\ (i + 1) * QuadBytes <= calls[k].offset + calls[k].size
        THEN cpu[i] ELSE buffer[i]]

\* main.rs: DEBUG_ENABLED as App::resumed leaves it (true if the context has
\* GL_KHR_debug), no debug group open
DebugState(enabled) == [enabled |-> enabled, groups |-> <<>>, underflow |-> FALSE]

\* no quad scene exists while a blur scene is the current scene
NoQuadScene ==
    /\ quads = <<>>
    /\ vertices = <<>>
    /\ gpu = <<>>
    /\ area_width = 0
    /\ mouse_pos = <<0, 0>>
    /\ world_mouse = <<0, 0>>
    /\ dt = 0
    /\ rect = <<0, 0, 0, 0>>
    /\ uploads = <<>>
    /\ drawn = <<>>
    /\ prev = <<>>
    /\ frames = 0

----------------------------------------------------------------------------
(* The scene controller *)

\* SceneController::new(scale_factor, scroll_speed), the camera apart;
\* time_delta stands for current_elapsed - prev_elapsed, in milliseconds
NewController(scale_factor) ==
    [mouse_pos      |-> <<0, 0>>,
     mouse_pos_held |-> <<0, 0>>,
     mouse_state    |-> "Released",
     hard_scale     |-> <<scale_factor * ScaleUnit, scale_factor * ScaleUnit>>,
     time_delta     |-> 0]

\* interact, CursorMoved: the pointer position is stored
InteractCursorMoved(c, position) == [c EXCEPT !.mouse_pos = position]

\* interact, MouseInput: the anchor after a button event of the given state
AnchorNeverTaken(c, state) == c.mouse_pos_held

\* interact, MouseInput: a press takes the pointer position as the anchor
Anchor(c, state) == IF state = "Pressed" THEN c.mouse_pos ELSE c.mouse_pos_held

\* interact, MouseInput: the state of the button is stored, whichever button
InteractMouseInput(c, state) ==
    [c EXCEPT !.mouse_state = state, !.mouse_pos_held = Anchor(c, state)]

\* a variation of ScrollScale: the wheel at scroll speed 1
ScrollScaleFullSpeed(h, my) ==
    IF my >= 0 THEN h * (2 ^ my) ELSE h \div (2 ^ (0 - my))

\* hard_scale * 2_f32.powf(scroll_speed * my), one axis, for the scroll speed
\* 0.5 the controller is built with and an even number of lines
ScrollScale(h, my) ==
    IF my >= 0 THEN h * (2 ^ (my \div 2)) ELSE h \div (2 ^ ((0 - my) \div 2))

\* interact, MouseWheel: only hard_scale changes
InteractMouseWheel(c, my) ==
    [c EXCEPT !.hard_scale = <<ScrollScale(c.hard_scale[1], my),
                               ScrollScale(c.hard_scale[2], my)>>]

\* time_delta.powf(0.6), for the deltas of Advances: 0 s, 1 s and 3.175 s
PowF(delta) ==
    CASE delta = 0 -> 0
      [] delta = 1000 -> 1
      [] delta = 3175 -> 2

\* the value of a division by 0.0: an infinity or NaN
NonFinite == 0 - (2 ^ 30)

\* a / b on f32, b in units of 1 / ScaleUnit, to the whole number below
DivScale(a, b) ==
    IF b = 0 THEN NonFinite
    ELSE IF b > 0 THEN (a * ScaleUnit) \div b
    ELSE (0 - (a * ScaleUnit)) \div (0 - b)

\* a + b on f32
AddF(a, b) == IF a = NonFinite \/ b = NonFinite THEN NonFinite ELSE a + b

\* update, smooth scrolling:
\* camera.scale += time_delta.powf(0.6) * (hard_scale - camera.scale)
UpdateScale(c, cam) ==
    <<cam.scale[1] + PowF(c.time_delta) * (c.hard_scale[1] - cam.scale[1]),
      cam.scale[2] + PowF(c.time_delta) * (c.hard_scale[2] - cam.scale[2])>>

\* update, mouse dragging, with the scale already updated:
\* camera.position += (mouse_pos - mouse_pos_held) / camera.scale
UpdatePosition(c, cam, scale) ==
    IF c.mouse_state = "Pressed"
    THEN <<AddF(cam.position[1], DivScale(c.mouse_pos[1] - c.mouse_pos_held[1], scale[1])),
           AddF(cam.position[2], DivScale(c.mouse_pos[2] - c.mouse_pos_held[2], scale[2]))>>
    ELSE cam.position

\* SceneController::update, the camera
UpdateCamera(c, cam) ==
    [cam EXCEPT !.scale = UpdateScale(c, cam),
                !.position = UpdatePosition(c, cam, UpdateScale(c, cam))]

\* nothing has happened yet
NoHistory ==
    [button |-> "none", press_pos |-> <<0, 0>>, scrolls |-> 0, frames |-> 0,
     key |-> "none", replaced |-> [variant |-> "none", blur |-> <<>>],
     delta |-> 0, before |-> DefaultCamera,
     used |-> [matrix |-> MatDefault, camera |-> DefaultCamera, viewport |-> <<0, 0>>]]

\* no pure function has been called yet
NoCall == [fn |-> "none"]

\* the controller of a window of scale factor 1, which has seen no event
IdleController ==
    /\ ctrl = NewController(1)
    /\ hist = NoHistory
    /\ call = NoCall

----------------------------------------------------------------------------
(* Initial state: the scene right after new(window) *)

BlurInit ==
    /\ variant \in {"kawase", "blurring"}
    /\ blur = IF variant = "kawase" THEN KawaseDefaults ELSE BlurringDefaults
    /\ gura_size \in GuraSizes
    /\ composite_fbs = CreateChain(gura_size)
    /\ fb_created = IF variant = "kawase" THEN Len(RESDIVS) ELSE 2 * Len(RESDIVS)
    /\ win_viewport \in WinSizes
    /\ viewport = win_viewport
    /\ matrix = MatDefault
    /\ camera = DefaultCamera
    /\ pc = "idle"
    /\ input_fb = NoTarget
    /\ todo = <<>>
    /\ texture = NoTarget
    /\ log = <<>>
    /\ nkeys = 0
    /\ debug \in {DebugState(enabled) : enabled \in BOOLEAN}
    /\ NoQuadScene
    /\ IdleController

----------------------------------------------------------------------------
(* Events between frames *)

\* App::window_event, KeyboardInput pressed: scenes.on_key(logical_key)
KeyEvent(key) ==
    /\ pc = "idle"
    /\ nkeys < MaxKeys
    /\ blur' = IF variant = "kawase" THEN KawaseOnKey(blur, key) ELSE BlurringOnKey(blur, key)
    /\ nkeys' = nkeys + 1
    /\ UNCHANGED <<variant, gura_size, composite_fbs, fb_created, viewport, win_viewport,
                   matrix, camera, pc, input_fb, todo, texture, log, debug>>
    /\ UNCHANGED quadVars
    /\ UNCHANGED appVars

\* App::window_event, Resized(size) with a non-zero size: self.viewport = size
WindowResized(size) ==
    /\ pc = "idle"
    /\ size[1] # 0 /\ size[2] # 0
    /\ win_viewport' = size
    /\ UNCHANGED <<variant, blur, gura_size, composite_fbs, fb_created, viewport,
                   matrix, camera, pc, input_fb, todo, texture, log, nkeys, debug>>
    /\ UNCHANGED quadVars
    /\ UNCHANGED appVars

----------------------------------------------------------------------------
(* One frame: App::about_to_wait calls resize, then draw *)

\* a variation of ResizeChain: the chain is rebuilt at the new viewport size
ResizeChainRebuilt(fbs, width, height) == CreateChain(<<width, height>>)

\* what resize(camera, width, height) does to composite_fbs: it has no
\* statement that names it
ResizeChain(fbs, width, height) == fbs

\* KawaseScene::resize / BlurringScene::resize(camera, width, height)
SceneResize ==
    /\ pc = "idle"
    /\ viewport' = win_viewport
    /\ matrix' = CameraMatrix(camera, viewport')
    /\ composite_fbs' = ResizeChain(composite_fbs, win_viewport[1], win_viewport[2])
    /\ pc' = "resized"
    /\ UNCHANGED <<variant, blur, gura_size, fb_created, win_viewport,
                   camera, input_fb, todo, texture, log, nkeys, debug>>
    /\ UNCHANGED quadVars
    /\ UNCHANGED appVars

\* common_gl::push_debug_group(message): gl::PushDebugGroup if DEBUG_ENABLED
PushDebugGroup(d, message) ==
    IF d.enabled THEN [d EXCEPT !.groups = Append(@, message)] ELSE d

\* common_gl::pop_debug_group(): gl::PopDebugGroup if DEBUG_ENABLED; with no
\* group open the call is a GL_STACK_UNDERFLOW error
PopDebugGroup(d) ==
    IF ~d.enabled THEN d
    ELSE IF d.groups = <<>> THEN [d EXCEPT !.underflow = TRUE]
    ELSE [d EXCEPT !.groups = SubSeq(@, 1, Len(@) - 1)]

\* kawase.rs, the zero-layer path; blurring.rs opens no debug group
DebugFastPath(v, d) ==
    IF v = "kawase" THEN PushDebugGroup(d, "Draw normally") ELSE d

\* kawase.rs, from the head of the else branch to the head of the first loop
DebugSeed(v, d) ==
    IF v = "kawase"
    THEN PushDebugGroup(
             PopDebugGroup(
                 PushDebugGroup(PushDebugGroup(d, "Draw with blurring"),
                                "Gura to framebuffer")),
             "Kawase downsampling")
    ELSE d

\* kawase_pass: the group around the draw call
DebugKawasePass(d) == PopDebugGroup(PushDebugGroup(d, "Kawase pass"))

\* kawase.rs: one pass of the downsampling loop; after the last one the
\* group of the loop is closed and that of the upsampling loop opened
DebugDownPass(v, d, last) ==
    IF v # "kawase" THEN d
    ELSE IF last
         THEN PushDebugGroup(PopDebugGroup(DebugKawasePass(d)), "Kawase upsampling")
         ELSE DebugKawasePass(d)

\* kawase.rs: one pass of the upsampling loop; after the last one the group
\* of the loop is closed
DebugUpPass(v, d, last) ==
    IF v # "kawase" THEN d
    ELSE IF last THEN PopDebugGroup(DebugKawasePass(d)) ELSE DebugKawasePass(d)

\* a variation of DebugBlit: the group of the frame is left open
DebugBlitOnePop(v, d) ==
    IF v = "kawase"
    THEN PopDebugGroup(PushDebugGroup(d, "Final draw to quad"))
    ELSE d

\* kawase.rs: the group of the final draw, and the end of the frame's group
DebugBlit(v, d) ==
    IF v = "kawase"
    THEN PopDebugGroup(PopDebugGroup(PushDebugGroup(d, "Final draw to quad")))
    ELSE d

\* draw_with_clear_color, up to the first loop: the zero-layer path, or the seed draw
DrawStart ==
    /\ pc = "resized"
    /\ IF FastPath(blur.layers)
       THEN /\ texture' = GuraTexture
            /\ pc' = "blit"
            /\ debug' = DebugFastPath(variant, debug)
            /\ UNCHANGED <<input_fb, todo, log>>
       ELSE LET nxt == EnterDown(variant, blur.layers, Composite(0))
            IN  /\ log' = SeedPass
                /\ input_fb' = Composite(0)
                /\ pc' = nxt.pc
                /\ todo' = nxt.todo
                /\ texture' = nxt.texture
                /\ debug' = DebugSeed(variant, debug)
    /\ UNCHANGED <<variant, blur, gura_size, composite_fbs, fb_created, viewport,
                   win_viewport, matrix, camera, nkeys>>
    /\ UNCHANGED quadVars
    /\ UNCHANGED appVars

\* one iteration of the downsampling loop
DownStep ==
    /\ pc \in {"seeded", "down"}
    /\ LET fbi == Head(todo)
           rest == Tail(todo)
           nxt == EnterUp(variant, blur.layers, Composite(fbi))
       IN  IF ~ValidIndex(fbi)
           THEN /\ pc' = "panic"
                /\ UNCHANGED <<input_fb, todo, texture, log, debug>>
           ELSE /\ log' = log \o LoopPass(variant, blur, "down", input_fb, fbi)
                /\ input_fb' = Composite(fbi)
                /\ debug' = DebugDownPass(variant, debug, rest = <<>>)
                /\ IF rest # <<>>
                   THEN pc' = "down" /\ todo' = rest /\ UNCHANGED texture
                   ELSE pc' = nxt.pc /\ todo' = nxt.todo /\ texture' = nxt.texture
    /\ UNCHANGED <<variant, blur, gura_size, composite_fbs, fb_created, viewport,
                   win_viewport, matrix, camera, nkeys>>
    /\ UNCHANGED quadVars
    /\ UNCHANGED appVars

\* one iteration of the upsampling loop
UpStep ==
    /\ pc = "up"
    /\ LET fbi == Head(todo)
           rest == Tail(todo)
       IN  IF ~ValidIndex(fbi)
           THEN /\ pc' = "panic"
                /\ UNCHANGED <<input_fb, todo, texture, log, debug>>
           ELSE /\ log' = log \o LoopPass(variant, blur, "up", input_fb, fbi)
                /\ input_fb' = Composite(fbi)
                /\ todo' = rest
                /\ debug' = DebugUpPass(variant, debug, rest = <<>>)
                /\ IF rest # <<>>
                   THEN pc' = "up" /\ UNCHANGED texture
                   ELSE pc' = "blit" /\ texture' = FinalTexture(Composite(fbi))
    /\ UNCHANGED <<variant, blur, gura_size, composite_fbs, fb_created, viewport,
                   win_viewport, matrix, camera, nkeys>>
    /\ UNCHANGED quadVars
    /\ UNCHANGED appVars

\* draw_with_clear_color: draw framebuffer to screen as quad
Blit ==
    /\ pc = "blit"
    /\ log' = log \o BlitPass(texture, blur)
    /\ debug' = DebugBlit(variant, debug)
    /\ pc' = "composited"
    /\ UNCHANGED <<variant, blur, gura_size, composite_fbs, fb_created, viewport,
                   win_viewport, matrix, camera, input_fb, todo, texture, nkeys>>
    /\ UNCHANGED quadVars
    /\ UNCHANGED appVars

\* App::about_to_wait after draw: request_redraw, swap_buffers; the frame's
\* locals and its command stream are gone
FrameEnd ==
    /\ pc = "composited"
    /\ pc' = "idle"
    /\ log' = <<>>
    /\ input_fb' = NoTarget
    /\ texture' = NoTarget
    /\ todo' = <<>>
    /\ UNCHANGED <<variant, blur, gura_size, composite_fbs, fb_created, viewport,
                   win_viewport, matrix, camera, nkeys, debug>>
    /\ UNCHANGED quadVars
    /\ UNCHANGED appVars

\* the steps of a frame that has started
FrameStep == DrawStart \/ DownStep \/ UpStep \/ Blit \/ FrameEnd

BlurNext ==
    \/ \E key \in Keys : KeyEvent(key)
    \/ \E size \in WinSizes : WindowResized(size)
    \/ SceneResize
    \/ DrawStart
    \/ DownStep
    \/ UpStep
    \/ Blit
    \/ FrameEnd

BlurSpec == BlurInit /\ [][BlurNext]_vars

\* a frame is straight-line code on one thread: once started it keeps running
BlurFairSpec == BlurSpec /\ WF_vars(FrameStep)

----------------------------------------------------------------------------
(* The quad scene: RoundQuadsScene::new, and a frame of it *)

\* the cells i of the rectangle that quads.get_mut(i) finds
Touched(r, aw, n) == {i \in RectCells(r, aw) : i < n}

\* no blur scene exists while the quad scene is the current scene
NoBlurScene ==
    /\ blur = <<>>
    /\ gura_size = <<0, 0>>
    /\ composite_fbs = <<>>
    /\ fb_created = 0
    /\ input_fb = NoTarget
    /\ todo = <<>>
    /\ texture = NoTarget
    /\ log = <<>>
    /\ nkeys = 0

\* RoundQuadsScene::new(window): N_QUADS quads on the lattice, their vertex
\* data at the baseline intensity, and the vertex buffer filled from it
QuadInit ==
    /\ variant = "round_quads"
    /\ NoBlurScene
    /\ debug = DebugState(FALSE)
    /\ area_width = AreaWidth
    /\ \E seed \in Seeds :
          quads = [i \in 0..(N_QUADS - 1) |-> QuadRandom(seed, i, area_width)]
    /\ vertices = [i \in 0..(N_QUADS - 1) |-> QuadVertices(quads[i], Half)]
    /\ gpu = vertices
    /\ win_viewport \in WinSizes
    /\ viewport = win_viewport
    /\ matrix = MatDefault
    /\ camera = DefaultCamera
    /\ mouse_pos = <<0, 0>>
    /\ world_mouse = <<0, 0>>
    /\ dt = 0
    /\ rect = <<0, 0, 0, 0>>
    /\ uploads = <<>>
    /\ drawn = <<>>
    /\ prev = <<>>
    /\ frames = 0
    /\ pc = "idle"
    /\ IdleController

\* WindowEvent::CursorMoved: the pointer position is stored
CursorMoved(position) ==
    /\ pc = "idle"
    /\ mouse_pos' = position
    /\ ctrl' = InteractCursorMoved(ctrl, position)
    /\ UNCHANGED <<hist, call>>
    /\ UNCHANGED blurVars
    /\ UNCHANGED <<quads, vertices, gpu, area_width, world_mouse, dt, rect,
                   uploads, drawn, prev, frames>>

\* RoundQuadsScene::resize: the viewport and the matrix, nothing else
QuadResize ==
    /\ pc = "idle"
    /\ frames < MaxFrames
    /\ viewport' = win_viewport
    /\ matrix' = CameraMatrix(camera, viewport')
    /\ pc' = "resized"
    /\ UNCHANGED <<variant, blur, gura_size, composite_fbs, fb_created, win_viewport,
                   camera, input_fb, todo, texture, log, nkeys, debug>>
    /\ UNCHANGED quadVars
    /\ UNCHANGED appVars

\* draw, up to the first update_vertices: the rectangle around the pointer,
\* the reactive update of its cells, and the upload of its rows
ReactiveUpdate(elapsed) ==
    /\ pc = "resized"
    /\ dt' = elapsed
    /\ world_mouse' = PointerToPos(camera, mouse_pos, viewport)
    /\ rect' = SurroundRect(world_mouse', area_width)
    /\ prev' = [quads |-> quads, vertices |-> vertices, gpu |-> gpu]
    /\ quads' = [i \in DOMAIN quads |->
                    IF i \in Touched(rect', area_width, N_QUADS)
                    THEN ReactQuad(quads[i], world_mouse', elapsed) ELSE quads[i]]
    /\ vertices' = [i \in DOMAIN vertices |->
                    IF i \in Touched(rect', area_width, N_QUADS)
                    THEN ReactVertices(quads'[i], world_mouse') ELSE vertices[i]]
    /\ uploads' = UploadCalls(rect', area_width)
    /\ gpu' = Upload(gpu, vertices', uploads')
    /\ pc' = "updated"
    /\ UNCHANGED blurVarsButPc
    /\ UNCHANGED appVars
    /\ UNCHANGED <<area_width, mouse_pos, drawn, frames>>

\* draw_with_clear_color: the draw call reads the vertex buffer
QuadDraw ==
    /\ pc = "updated"
    /\ drawn' = gpu
    /\ pc' = "drawn"
    /\ UNCHANGED blurVarsButPc
    /\ UNCHANGED appVars
    /\ UNCHANGED <<quads, vertices, gpu, area_width, mouse_pos, world_mouse, dt,
                   rect, uploads, prev, frames>>

\* draw, after the draw call: the cells of the rectangle are rebuilt at the
\* reset intensity and its rows uploaded again
QuadReset ==
    /\ pc = "drawn"
    /\ vertices' = [i \in DOMAIN vertices |->
                    IF i \in Touched(rect, area_width, N_QUADS)
                    THEN QuadVertices(quads[i], ResetIntensity) ELSE vertices[i]]
    /\ uploads' = UploadCalls(rect, area_width)
    /\ gpu' = Upload(gpu, vertices', uploads')
    /\ frames' = frames + 1
    /\ pc' = "idle"
    /\ UNCHANGED blurVarsButPc
    /\ UNCHANGED appVars
    /\ UNCHANGED <<quads, area_width, mouse_pos, world_mouse, dt, rect, drawn, prev>>

QuadNext ==
    \/ \E position \in MousePositions : CursorMoved(position)
    \/ \E size \in WinSizes : WindowResized(size)
    \/ QuadResize
    \/ \E elapsed \in Dts : ReactiveUpdate(elapsed)
    \/ QuadDraw
    \/ QuadReset

QuadSpec == QuadInit /\ [][QuadNext]_vars

----------------------------------------------------------------------------
(* The pure functions of the grid and of the camera, applied to inputs drawn *)
(* from bounded sets                                                         *)

\* the scales of the round trip: 0.5, 1.0 and 2.0
CameraScales == {ScaleUnit \div 2, ScaleUnit, 2 * ScaleUnit}

CalcInit ==
    /\ variant = "none"
    /\ NoBlurScene
    /\ debug = DebugState(FALSE)
    /\ NoQuadScene
    /\ viewport = <<0, 0>>
    /\ win_viewport = <<0, 0>>
    /\ matrix = MatDefault
    /\ camera = DefaultCamera
    /\ pc = "idle"
    /\ IdleController

\* a grid cell is turned into its index and the index back into a cell
GridRoundTrip(aw, x, y) ==
    /\ call = NoCall
    /\ call' = [fn |-> "grid", aw |-> aw, x |-> x, y |-> y,
                i |-> IdxFromGridIdx(x, y, aw),
                coord |-> GridIdxFromIdx(IdxFromGridIdx(x, y, aw), aw)]
    /\ UNCHANGED <<blurVars, quadVars, ctrl, hist>>

\* Quad::closest_grid_idx_from_pos is applied to a world position
ClosestGrid(aw, pos) ==
    /\ call = NoCall
    /\ call' = [fn |-> "closest", aw |-> aw, pos |-> pos,
                coord |-> ClosestGridIdxFromPos(pos, aw)]
    /\ UNCHANGED <<blurVars, quadVars, ctrl, hist>>

\* the numbers of quads a lattice is laid out for: the squares up to the
\* largest width, the numbers right after them, and N_QUADS
QuadCounts == {aw * aw + k : aw \in 1..MaxWidth, k \in {0, 1}} \cup {N_QUADS}

\* the lattice of RoundQuadsScene::new for n quads: a cell is given its
\* position by Quad::pos_from_grid_idx, and the position is taken back to a
\* cell by Quad::closest_grid_idx_from_pos
LatticeRoundTrip(n, x, y) ==
    /\ call = NoCall
    /\ LET aw == Isqrt(n)
       IN  call' = [fn |-> "lattice", n |-> n, aw |-> aw, x |-> x, y |-> y,
                    origin |-> PosFromGridIdx(0, 0, aw),
                    pos |-> PosFromGridIdx(x, y, aw),
                    coord |-> ClosestGridIdxFromPos(PosFromGridIdx(x, y, aw), aw),
                    last |-> IdxFromGridIdx(aw - 1, 0, aw)]
    /\ UNCHANGED <<blurVars, quadVars, ctrl, hist>>

\* the rectangle draw derives for a pointer at the world position pos in a
\* scene of n quads, and the calls update_vertices issues for it
FrameRect(n, pos) ==
    /\ call = NoCall
    /\ LET aw == Isqrt(n)
       IN  call' = [fn |-> "rect", n |-> n, aw |-> aw, pos |-> pos,
                    rect |-> SurroundRect(pos, aw),
                    uploads |-> UploadCalls(SurroundRect(pos, aw), aw)]
    /\ UNCHANGED <<blurVars, quadVars, ctrl, hist>>

\* a world point is taken to the screen by the transform of Camera::matrix
\* and back by Camera::pointer_to_pos
CameraRoundTrip(cam, vp, p) ==
    /\ call = NoCall
    /\ call' = [fn |-> "camera", cam |-> cam, vp |-> vp, p |-> p,
                screen |-> WorldToScreen(cam, p, vp),
                back |-> PointerToPos(cam, WorldToScreen(cam, p, vp), vp)]
    /\ UNCHANGED <<blurVars, quadVars, ctrl, hist>>

\* on_key of a blur scene is applied to parameters and a key
BlurKey(v, b, key) ==
    /\ call = NoCall
    /\ call' = [fn |-> "on_key", variant |-> v, before |-> b, key |-> key,
                after |-> IF v = "kawase" THEN KawaseOnKey(b, key) ELSE BlurringOnKey(b, key)]
    /\ UNCHANGED <<blurVars, quadVars, ctrl, hist>>

CalcNext ==
    \/ \E key \in Keys, radius \in Radii, layers \in LayerCounts :
          \/ BlurKey("kawase", [KawaseDefaults EXCEPT !.radius = radius, !.layers = layers], key)
          \/ \E kernel \in Kernels :
                BlurKey("blurring", [BlurringDefaults EXCEPT !.radius = radius,
                                        !.layers = layers, !.kernel = kernel], key)
    \/ \E aw \in 1..MaxWidth, x, y \in 0..MaxWidth : GridRoundTrip(aw, x, y)
    \/ \E aw \in 1..MaxWidth, px, py \in WorldCoords : ClosestGrid(aw, <<px, py>>)
    \/ \E n \in QuadCounts, x, y \in 0..MaxWidth : LatticeRoundTrip(n, x, y)
    \/ \E n \in QuadCounts, px, py \in PointerCoords : FrameRect(n, <<px, py>>)
    \/ \E position \in CameraPositions, rotation \in 0..3, sx, sy \in CameraScales,
          vp \in WinSizes, p \in WorldPoints :
          CameraRoundTrip([position |-> position, rotation |-> rotation,
                           scale |-> <<sx, sy>>], vp, p)

CalcSpec == CalcInit /\ [][CalcNext]_vars

----------------------------------------------------------------------------
(* The application: the events of App::window_event between the frames, and *)
(* the frame of App::about_to_wait.  What the scenes draw is left out.       *)

\* App::resumed: Scenes::new and SceneController::new(scale_factor, 0.5)
AppInit ==
    /\ variant = "round_quads"
    /\ NoBlurScene
    /\ debug = DebugState(FALSE)
    /\ NoQuadScene
    /\ win_viewport \in WinSizes
    /\ viewport = win_viewport
    /\ matrix = MatDefault
    /\ \E scale_factor \in ScaleFactors :
          /\ camera = [DefaultCamera EXCEPT
                          !.scale = <<scale_factor * ScaleUnit, scale_factor * ScaleUnit>>]
          /\ ctrl = NewController(scale_factor)
    /\ hist = NoHistory
    /\ call = NoCall
    /\ pc = "idle"

\* the scene variables no event of the application and no step of its frame changes
sceneContent ==
    <<blur, gura_size, composite_fbs, fb_created, input_fb, todo, texture, log, nkeys,
      debug, quads, vertices, gpu, area_width, world_mouse, dt, rect, uploads, drawn, prev, frames>>

\* WindowEvent::MouseInput, any button
MouseInput(state) ==
    /\ pc = "idle"
    /\ ctrl' = InteractMouseInput(ctrl, state)
    /\ hist' = [hist EXCEPT !.button = state,
                            !.press_pos = IF state = "Pressed" THEN mouse_pos ELSE @]
    /\ UNCHANGED <<variant, viewport, win_viewport, matrix, camera, pc, mouse_pos, call>>
    /\ UNCHANGED sceneContent

\* WindowEvent::MouseWheel
MouseWheel(my) ==
    /\ pc = "idle"
    /\ hist.scrolls < MaxScrolls
    /\ ctrl' = InteractMouseWheel(ctrl, my)
    /\ hist' = [hist EXCEPT !.scrolls = @ + 1]
    /\ UNCHANGED <<variant, viewport, win_viewport, matrix, camera, pc, mouse_pos, call>>
    /\ UNCHANGED sceneContent

\* Scenes::switch_scene: the kind of the scene after the key
SwitchedVariant(v, key) ==
    CASE key = "F1" -> "round_quads"
      [] key = "F2" -> "blurring"
      [] OTHER      -> v

\* WindowEvent::KeyboardInput with F1 or F2: Scenes::switch_scene builds the
\* scene anew, its matrix Mat4::default() and its viewport the window's size
SwitchScene(key) ==
    /\ pc = "idle"
    /\ variant' = SwitchedVariant(variant, key)
    /\ matrix' = MatDefault
    /\ viewport' = win_viewport
    /\ UNCHANGED <<win_viewport, camera, pc, mouse_pos, ctrl, hist, call>>
    /\ UNCHANGED sceneContent

\* about_to_wait, scene_ctrl.update(): the camera moves, and the time of the
\* call becomes current_elapsed
CtrlUpdate(advance) ==
    /\ pc = "idle"
    /\ hist.frames < MaxFrames
    /\ camera' = UpdateCamera(ctrl, camera)
    /\ ctrl' = [ctrl EXCEPT !.time_delta = advance]
    /\ hist' = [hist EXCEPT !.delta = ctrl.time_delta, !.before = camera]
    /\ pc' = "ctrl_updated"
    /\ UNCHANGED <<variant, viewport, win_viewport, matrix, mouse_pos, call>>
    /\ UNCHANGED sceneContent

\* a variation of ResizeCamera: the camera as it was before update()
ResizeCameraStale(before, after) == before

\* the camera about_to_wait passes to resize: &scene_ctrl.camera, after update()
ResizeCamera(before, after) == after

\* about_to_wait, scenes.resize(&scene_ctrl.camera, viewport.x, viewport.y)
AppResize ==
    /\ pc = "ctrl_updated"
    /\ viewport' = win_viewport
    /\ matrix' = CameraMatrix(ResizeCamera(hist.before, camera), viewport')
    /\ pc' = "app_resized"
    /\ UNCHANGED <<variant, win_viewport, camera, mouse_pos, ctrl, hist, call>>
    /\ UNCHANGED sceneContent

\* about_to_wait, scenes.draw(&scene_ctrl.camera, mouse_pos): the draw calls
\* of the scene use the matrix uploaded last
AppDraw ==
    /\ pc = "app_resized"
    /\ hist' = [hist EXCEPT !.used = [matrix |-> matrix, camera |-> camera,
                                      viewport |-> win_viewport]]
    /\ pc' = "app_drawn"
    /\ UNCHANGED <<variant, viewport, win_viewport, matrix, camera, mouse_pos, ctrl, call>>
    /\ UNCHANGED sceneContent

\* about_to_wait, request_redraw and swap_buffers: the frame is over
AppFrameEnd ==
    /\ pc = "app_drawn"
    /\ hist' = [hist EXCEPT !.frames = @ + 1, !.delta = NoHistory.delta,
                            !.before = NoHistory.before, !.used = NoHistory.used]
    /\ pc' = "idle"
    /\ UNCHANGED <<variant, viewport, win_viewport, matrix, camera, mouse_pos, ctrl, call>>
    /\ UNCHANGED sceneContent

AppNext ==
    \/ \E position \in Pointers : CursorMoved(position)
    \/ \E size \in WinSizes : WindowResized(size)
    \/ \E state \in {"Pressed", "Released"} : MouseInput(state)
    \/ \E my \in WheelDeltas : MouseWheel(my)
    \/ \E key \in {"F1", "F2"} : SwitchScene(key)
    \/ \E advance \in Advances : CtrlUpdate(advance)
    \/ AppResize
    \/ AppDraw
    \/ AppFrameEnd

AppSpec == AppInit /\ [][AppNext]_vars

----------------------------------------------------------------------------
(* The keyboard: App::window_event calls switch_scene and then on_key for   *)
(* every key pressed                                                         *)

\* a variation of BlurAfterSwitch: a blur scene that is current is kept
BlurAfterSwitchInPlace(v, b, key) ==
    CASE key = "F1" -> <<>>
      [] key = "F2" -> IF v = "blurring" THEN b ELSE BlurringDefaults
      [] OTHER      -> b

\* Scenes::switch_scene: the blur parameters of the scene after the key.
\* F2 assigns BlurringScene::new(window), F1 a scene that has none
BlurAfterSwitch(v, b, key) ==
    CASE key = "F1" -> <<>>
      [] key = "F2" -> BlurringDefaults
      [] OTHER      -> b

\* Scenes::on_key: the key goes to the handler of the current scene; the
\* quad scene has none
ScenesOnKey(v, b, key) == IF v = "blurring" THEN BlurringOnKey(b, key) ELSE b

\* the keys of the blur scene and the two scene-switch keys
AllKeys == Keys \cup {"F1", "F2"}

\* WindowEvent::KeyboardInput, a key pressed:
\* scenes.switch_scene(window, key); scenes.on_key(key)
KeyPressed(key) ==
    /\ pc = "idle"
    /\ nkeys < MaxKeys
    /\ variant' = SwitchedVariant(variant, key)
    /\ blur' = ScenesOnKey(variant', BlurAfterSwitch(variant, blur, key), key)
    /\ matrix' = IF key \in {"F1", "F2"} THEN MatDefault ELSE matrix
    /\ viewport' = IF key \in {"F1", "F2"} THEN win_viewport ELSE viewport
    /\ nkeys' = nkeys + 1
    /\ hist' = [hist EXCEPT !.key = key,
                            !.replaced = [variant |-> variant, blur |-> blur]]
    /\ UNCHANGED <<gura_size, composite_fbs, fb_created, win_viewport, camera, pc,
                   input_fb, todo, texture, log, ctrl, call, debug>>
    /\ UNCHANGED quadVars

KeyNext ==
    \/ \E key \in AllKeys : KeyPressed(key)
    \/ \E size \in WinSizes : WindowResized(size)

KeySpec == AppInit /\ [][KeyNext]_vars

----------------------------------------------------------------------------
(* Properties of the compositor *)

Range(s) == {s[i] : i \in DOMAIN s}

\* the loop iterations of a phase: the draw calls of that phase that write a
\* composite target (a ping-pong pass is one iteration, two draw calls)
Steps(phase) ==
    {i \in DOMAIN log : log[i].phase = phase /\ log[i].write[1] = "composite"}

Last(s) == s[Len(s)]

\* every chain index the frame drawn with these parameters uses
FrameIndices(v, layers) ==
    IF FastPath(layers) THEN {}
    ELSE {0} \cup Range(DownFbis(v, layers)) \cup Range(UpFbis(v, layers))

\* C1 as stated: a finished frame has made exactly L downsample steps and
\* exactly L upsample steps, L the layer count, in both compositors
C1_AsStated ==
    pc = "composited" =>
        /\ Cardinality(Steps("down")) = blur.layers
        /\ Cardinality(Steps("up")) = blur.layers

\* C1 amended: a finished frame has made exactly L downsample steps; the
\* Kawase compositor has made exactly L upsample steps, the ping-pong
\* compositor exactly L - 1 (its deepest level is not revisited), and 0 when
\* L = 0
C1_StepCounts ==
    pc = "composited" =>
        /\ Cardinality(Steps("down")) = blur.layers
        /\ Cardinality(Steps("up")) =
              IF variant = "kawase" THEN blur.layers ELSE Max(blur.layers - 1, 0)
        /\ blur.layers = 0 => Steps("down") = {} /\ Steps("up") = {}

C1_Witness ==
    /\ pc = "composited"
    /\ variant = "kawase"
    /\ blur.layers = 3
    /\ Cardinality(Steps("up")) = 3

\* C2: after any key events the layer count is within [0, chain length], no
\* frame has panicked on an index, and every chain index the next frame uses
\* is a valid index of the chain (the overflowed layers - 1 is none)
C2_ValidIndices ==
    /\ blur.layers \in 0..Len(composite_fbs)
    /\ pc # "panic"
    /\ \A fbi \in FrameIndices(variant, blur.layers) : ValidIndex(fbi)

C2_Witness ==
    /\ pc = "composited"
    /\ variant = "kawase"
    /\ blur.layers = 5
    /\ nkeys = 5
    /\ \E i \in DOMAIN log : log[i].write = Composite(5)

\* C3: in a frame with layer count 0 no draw call writes an off-screen
\* target; the only draw call is the screen blit and it samples the source
\* image
C3_ZeroLayers ==
    blur.layers = 0 =>
        /\ \A i \in DOMAIN log : log[i].write = Screen /\ log[i].read = GuraTexture
        /\ pc \in {"blit", "composited"} => texture = GuraTexture
        /\ pc = "composited" => Len(log) = 1 /\ log[1].phase = "blit"
        /\ pc \notin {"seeded", "down", "up", "panic"}

C3_Witness ==
    /\ pc = "composited"
    /\ blur.layers = 0
    /\ Len(log) = 1
    /\ log[1].read = GuraTexture

\* C4: every draw call of a frame samples the source image or a target an
\* earlier draw call of the same frame has written, never the target it
\* writes; an upsample into level k samples level k + 1, written before
C4_WriteBeforeRead ==
    \A i \in DOMAIN log :
        /\ log[i].read # log[i].write
        /\ \/ log[i].read = GuraTexture
           \/ \E j \in 1..(i - 1) : log[j].write = log[i].read
        /\ (log[i].phase = "up" /\ log[i].read[1] = "composite") =>
              /\ log[i].read = Composite(log[i].level + 1)
              /\ \E j \in 1..(i - 1) : log[j].write = Composite(log[i].level + 1)

C4_Witness ==
    /\ pc = "composited"
    /\ blur.layers >= 2
    /\ \E i \in DOMAIN log : log[i].phase = "up" /\ log[i].read = Composite(1)

PhaseRank(phase) ==
    CASE phase = "seed" -> 0
      [] phase = "down" -> 1
      [] phase = "up"   -> 2
      [] phase = "blit" -> 3

\* the draw calls of the frame so far are in pipeline order
InPipelineOrder ==
    /\ \A i, j \in DOMAIN log : i < j =>
          /\ PhaseRank(log[i].phase) <= PhaseRank(log[j].phase)
          /\ log[j].phase # "seed" /\ log[i].phase # "blit"
          /\ (log[i].phase = "down" /\ log[j].phase = "down") =>
                log[i].level <= log[j].level
          /\ (log[i].phase = "up" /\ log[j].phase = "up") =>
                log[i].level >= log[j].level
    /\ \A i, j \in Steps("down") : i < j => log[i].level < log[j].level
    /\ \A i, j \in Steps("up") : i < j => log[i].level > log[j].level
    /\ (blur.layers >= 1 /\ log # <<>>) => log[1].phase = "seed"
    /\ pc = "composited" <=> (log # <<>> /\ Last(log).phase = "blit")

\* C5: the draw calls of a frame come in the order seed, downsample passes
\* by increasing level, upsample passes by decreasing level, one screen blit;
\* a frame only ends after its blit, and every frame that has started
\* reaches the blit
C5_FrameRunsToBlit ==
    /\ []InPipelineOrder
    /\ [][pc' = "idle" => pc \in {"idle", "composited"}]_vars
    /\ [](pc # "panic")
    /\ (pc # "idle") ~> (pc = "composited")

C5_Witness ==
    /\ pc = "composited"
    /\ blur.layers >= 2
    /\ Cardinality(Steps("down")) >= 2
    /\ Cardinality(Steps("up")) >= 1
    /\ log[1].phase = "seed"
    /\ Last(log).phase = "blit"

\* the last draw call of the log that writes the target
LastWriter(target) ==
    LET W == {i \in DOMAIN log : log[i].write = target}
    IN  CHOOSE i \in W : \A j \in W : j <= i

\* the screen blit of a finished frame samples the level-0 composite target,
\* and the draw call right before the blit is the one that wrote it last
BlitSamplesLevel0 ==
    /\ Last(log).phase = "blit"
    /\ Last(log).read = Composite(0)
    /\ \E i \in DOMAIN log : log[i].write = Composite(0)
    /\ LastWriter(Composite(0)) = Len(log) - 1

\* C6 as stated: for L >= 1 the blit samples the level-0 target, last
\* written by the last upsample pass of the frame
C6_AsStated ==
    (pc = "composited" /\ blur.layers >= 1) =>
        /\ BlitSamplesLevel0
        /\ log[LastWriter(Composite(0))].phase = "up"

\* C6 amended: for L >= 1 the blit samples the level-0 target, last written
\* by the last blur pass of the frame: the last upsample pass, or, in the
\* ping-pong compositor with L = 1, where no upsample pass runs, the one
\* downsample pass
C6_BlitSamplesFinest ==
    (pc = "composited" /\ blur.layers >= 1) =>
        /\ BlitSamplesLevel0
        /\ log[LastWriter(Composite(0))].phase =
              IF variant = "blurring" /\ blur.layers = 1 THEN "down" ELSE "up"

C6_Witness ==
    /\ pc = "composited"
    /\ blur.layers >= 2
    /\ Last(log).read = Composite(0)
    /\ log[Len(log) - 1].phase = "up"
    /\ log[Len(log) - 1].write = Composite(0)

\* the sizes of the chain, were it built for base size <<w, h>>
ChainSizes(base) ==
    [k \in 1..Len(RESDIVS) |-> <<base[1] \div RESDIVS[k], base[2] \div RESDIVS[k]>>]

\* the framebuffers new() created, and no other
CreatedByNew ==
    fb_created = IF variant = "kawase" THEN Len(RESDIVS) ELSE 2 * Len(RESDIVS)

----------------------------------------------------------------------------
(* The quad grid: the reach of the reactive update *)

\* the entities at a distance below the radius from the pointer of the frame
WithinRadius ==
    {i \in DOMAIN quads :
        Distance2(quads[i].position, world_mouse) < SurroundRadius * SurroundRadius}

\* the entities whose grid cell (i % area_width, i / area_width) is outside
\* the rectangle [x_beg, x_end] x [y_beg, y_end] of the frame
OutsideRect ==
    {i \in DOMAIN quads :
        \/ i % area_width < rect[1] \/ i % area_width > rect[2]
        \/ i \div area_width < rect[3] \/ i \div area_width > rect[4]}

\* C8: in the draw call of a frame, every entity 0 <= i < N whose position is
\* at a distance below the radius from the pointer is drawn at an emitted
\* intensity above the baseline, that is with a falloff intensity > 0.
C8_AsStated ==
    pc = "drawn" => \A i \in WithinRadius : drawn[i].intensity > Half

\* C9: every entity outside the rectangle of a frame has, from the reactive
\* update on and after the reset, the rotation, the CPU-side vertex data
\* and the vertex buffer contents it had before the frame.
C9_OutsideUntouched ==
    prev # <<>> =>
        \A i \in OutsideRect :
            /\ quads[i].rotation = prev.quads[i].rotation
            /\ vertices[i] = prev.vertices[i]
            /\ gpu[i] = prev.gpu[i]

\* a frame has ended that rotated an entity inside its rectangle and had
\* entities outside it
C9_Witness ==
    /\ pc = "idle"
    /\ frames >= 1
    /\ \E i \in OutsideRect : i < area_width * area_width
    /\ \E i \in DOMAIN quads : quads[i].rotation # prev.quads[i].rotation

\* C10: once the reset of a frame is done, every entity the frame touched
\* has the baseline intensity 0.5 in the CPU-side vertex data.
C10_ResetToBaseline ==
    (pc \in {"idle", "resized"} /\ frames >= 1) =>
        \A i \in Touched(rect, area_width, N_QUADS) :
            vertices[i].intensity = IntensityUnit \div 2

\* a frame has ended whose draw call showed a touched entity above the baseline
C10_Witness ==
    /\ pc = "idle"
    /\ frames >= 1
    /\ \E i \in Touched(rect, area_width, N_QUADS) :
          /\ drawn[i].intensity > IntensityUnit \div 2
          /\ vertices[i].intensity = IntensityUnit \div 2

----------------------------------------------------------------------------
(* The partial upload *)

\* the entities of which a call uploads at least one byte
Covered(upload) ==
    {i \in 0..(N_QUADS - 1) :
        upload.offset < (i + 1) * QuadBytes /\ i * QuadBytes < upload.offset + upload.size}

\* C11: the upload of the rectangle [x_beg, x_end] x [y_beg, y_end] is one
\* call per row y_beg..y_end in order; the call of row y starts at the byte
\* offset of entity y * area_width + x_beg and is x_end - x_beg + 1 entities
\* long; no call covers the whole buffer or an entity outside the rectangle.
C11_UploadPerRow ==
    pc \in {"updated", "drawn"} =>
        /\ Len(uploads) = rect[4] - rect[3] + 1
        /\ \A k \in DOMAIN uploads :
              LET y == rect[3] + k - 1
              IN  /\ uploads[k].offset = (y * area_width + rect[1]) * QuadBytes
                  /\ uploads[k].size = (rect[2] - rect[1] + 1) * QuadBytes
                  /\ uploads[k].size < N_QUADS * QuadBytes
                  /\ Covered(uploads[k]) \cap OutsideRect = {}
                  /\ Covered(uploads[k]) = {y * area_width + x : x \in rect[1]..rect[2]}

\* an upload of several rows of a rectangle narrower than the grid
C11_Witness ==
    /\ pc = "updated"
    /\ Len(uploads) >= 2
    /\ rect[2] - rect[1] + 1 < area_width

----------------------------------------------------------------------------
(* The grid and the camera as functions *)

\* C12: for every cell (x, y) with 0 <= x < area_width and 0 <= y < area_width,
\* the cell of the index y * area_width + x is (x, y) again.
C12_GridRoundTrip ==
    (call.fn = "grid" /\ call.x < call.aw /\ call.y < call.aw) =>
        call.coord = <<call.x, call.y>>

\* a cell off the diagonal, in the last column, has made the round trip
C12_Witness ==
    /\ call.fn = "grid"
    /\ call.aw >= 2
    /\ call.x = call.aw - 1
    /\ call.y < call.x
    /\ call.coord = <<call.x, call.y>>

\* C13: whatever the world position, the cell closest_grid_idx_from_pos
\* returns has both coordinates in 0..area_width - 1.
C13_ClosestInGrid ==
    call.fn = "closest" =>
        /\ call.coord[1] \in 0..(call.aw - 1)
        /\ call.coord[2] \in 0..(call.aw - 1)

\* a position far beyond the lattice on one axis and far before it on the other
C13_Witness ==
    /\ call.fn = "closest"
    /\ call.pos[1] > 16 * call.aw
    /\ call.pos[2] < 0 - 16 * call.aw
    /\ call.coord = <<call.aw - 1, 0>>

\* C14: for every viewport, camera position, rotation and non-zero scale,
\* pointer_to_pos takes the screen position of a world point back to the point.
C14_AsStated ==
    call.fn = "camera" => call.back = call.p

----------------------------------------------------------------------------
(* The scene controller and the frame of the application *)

\* C15: whatever the scroll events and the frame deltas, no component of
\* camera.scale is ever exactly zero.
C15_AsStated == camera.scale[1] # 0 /\ camera.scale[2] # 0

\* C16: an update() whose time_delta is zero leaves camera.scale and
\* camera.position as they were, in every state of the controller.
C16_AsStated ==
    (pc = "ctrl_updated" /\ hist.delta = 0) =>
        /\ camera.scale = hist.before.scale
        /\ camera.position = hist.before.position

\* C17: the drag is active exactly when the last button event was a press,
\* and while it is active the anchor is the pointer position at that press.
C17_DragFollowsButton ==
    /\ (ctrl.mouse_state = "Pressed") <=> (hist.button = "Pressed")
    /\ ctrl.mouse_state = "Pressed" => ctrl.mouse_pos_held = hist.press_pos

\* the pointer has moved away from the anchor during a drag, and a frame has run
C17_Witness ==
    /\ ctrl.mouse_state = "Pressed"
    /\ ctrl.mouse_pos # ctrl.mouse_pos_held
    /\ ctrl.mouse_pos_held # <<0, 0>>
    /\ hist.frames >= 1

\* C18: a scroll event doubles or halves hard_scale (2 ^ (0.5 * delta) for a
\* delta of 2 or -2 lines) and changes neither the camera, nor the pointer
\* position, nor the anchor, nor the button state; camera.scale changes only
\* in the update() step of a frame.
C18_ScrollSetsTarget ==
    [][/\ hist'.scrolls # hist.scrolls =>
            /\ camera' = camera
            /\ mouse_pos' = mouse_pos
            /\ ctrl'.mouse_pos = ctrl.mouse_pos
            /\ ctrl'.mouse_pos_held = ctrl.mouse_pos_held
            /\ ctrl'.mouse_state = ctrl.mouse_state
            /\ \/ ctrl'.hard_scale = <<2 * ctrl.hard_scale[1], 2 * ctrl.hard_scale[2]>>
               \/ ctrl.hard_scale = <<2 * ctrl'.hard_scale[1], 2 * ctrl'.hard_scale[2]>>
       /\ camera'.scale # camera.scale => (pc = "idle" /\ pc' = "ctrl_updated")]_vars

\* the wheel has moved the target, and an update() has taken the scale to it
C18_Witness ==
    /\ hist.scrolls >= 1
    /\ hist.frames >= 1
    /\ camera.scale = ctrl.hard_scale
    /\ camera.scale # <<ScaleUnit, ScaleUnit>>

\* C19: in every frame update() runs before resize and resize before draw,
\* and the matrix the draw uses is camera.matrix(viewport) for the camera
\* and the window size of that frame.
C19_MatrixFresh ==
    /\ [](pc = "app_drawn" =>
            /\ hist.used.camera = camera
            /\ hist.used.viewport = win_viewport
            /\ hist.used.matrix = [camera |-> camera, viewport |-> win_viewport])
    /\ [](pc = "app_resized" => matrix = [camera |-> camera, viewport |-> win_viewport])
    /\ [][/\ pc' = "ctrl_updated" => pc = "idle"
          /\ pc' = "app_resized" => pc = "ctrl_updated"
          /\ pc' = "app_drawn" => pc = "app_resized"]_vars

\* a draw of the second scene at the window size 800 x 600, after a scroll,
\* in a frame whose update() moved the camera
C19_Witness ==
    /\ pc = "app_drawn"
    /\ variant = "blurring"
    /\ hist.scrolls >= 1
    /\ hist.used.camera # hist.before
    /\ hist.used.viewport = <<800, 600>>
    /\ hist.frames >= 1

----------------------------------------------------------------------------
(* The ranges of the blur parameters *)

\* radius within [0, largest divisor / 2] and, where there is one, the kernel
\* size within [0, 64]
InRange(v, b) ==
    /\ b.radius >= 0
    /\ 2 * b.radius <= 10 * RESDIVS[Len(RESDIVS)]
    /\ v = "blurring" => (b.kernel >= 0 /\ b.kernel <= 64)

\* C20: the parameters a scene starts with are in range, and a key event
\* takes parameters in range to parameters in range; so they are in range
\* after any sequence of key events.
C20_ParamsInRange ==
    /\ InRange("kawase", KawaseDefaults)
    /\ InRange("blurring", BlurringDefaults)
    /\ (call.fn = "on_key" /\ InRange(call.variant, call.before)) =>
           InRange(call.variant, call.after)

\* ArrowDown on a kernel size of 0: the limit is met
C20_Witness ==
    /\ call.fn = "on_key"
    /\ call.variant = "blurring"
    /\ call.key = "ArrowDown"
    /\ call.before.kernel = 0
    /\ call.after.kernel = 0

----------------------------------------------------------------------------
(* The resolutions of the chain *)

\* C21: in every state the target at index k is the size of the image the
\* chain was built for divided by RESDIVS[k], per axis and rounded down; the
\* divisors are strictly increasing, and the sizes are non-increasing
\* along the chain.
C21_ChainResolutions ==
    /\ Len(composite_fbs) = Len(RESDIVS)
    /\ \A k \in DOMAIN composite_fbs :
          /\ composite_fbs[k].size[1] = gura_size[1] \div RESDIVS[k]
          /\ composite_fbs[k].size[2] = gura_size[2] \div RESDIVS[k]
    /\ \A k \in 1..(Len(RESDIVS) - 1) :
          /\ RESDIVS[k] < RESDIVS[k + 1]
          /\ composite_fbs[k].size[1] >= composite_fbs[k + 1].size[1]
          /\ composite_fbs[k].size[2] >= composite_fbs[k + 1].size[2]

\* a frame of a 64 x 48 image is composited after key events: the last
\* target of the chain is 1 x 0
C21_Witness ==
    /\ pc = "composited"
    /\ nkeys >= 1
    /\ gura_size = <<64, 48>>
    /\ composite_fbs[Len(RESDIVS)].size = <<1, 0>>

----------------------------------------------------------------------------
(* The quads over the frames *)

\* the quad without its rotation
Unrotated(quad) == [quad EXCEPT !.rotation = 0]

\* C22: in every state after new(), the quads are the N_QUADS quads new()
\* created, each with the position, size, border radius, border width, fill
\* color and stroke color it was created with; only rotation may differ.
C22_OnlyRotationChanges ==
    /\ DOMAIN quads = 0..(N_QUADS - 1)
    /\ \E seed \in Seeds :
          \A i \in DOMAIN quads :
              Unrotated(quads[i]) = Unrotated(QuadRandom(seed, i, area_width))

\* two frames have run, and a quad has been rotated
C22_Witness ==
    /\ pc = "idle"
    /\ frames >= 2
    /\ \E seed \in Seeds :
          /\ quads[0].size = QuadRandom(seed, 0, area_width).size
          /\ \E i \in DOMAIN quads :
                quads[i].rotation # QuadRandom(seed, i, area_width).rotation

\* the pointer of the frame is farther than the radius from every quad
PointerFar ==
    \A i \in DOMAIN quads :
        Distance2(quads[i].position, world_mouse) > SurroundRadius * SurroundRadius

\* C23: a frame whose pointer is farther than the radius from every quad
\* slices the vertex array within its length, and leaves the rotation and
\* the vertex data of every quad as they were before the frame.
C23_FarPointerNoOp ==
    (prev # <<>> /\ PointerFar) =>
        /\ \A k \in DOMAIN uploads :
              /\ uploads[k].size > 0
              /\ uploads[k].offset + uploads[k].size <= N_QUADS * QuadBytes
        /\ pc \in {"idle", "resized"} =>
              \A i \in DOMAIN quads :
                  /\ quads[i].rotation = prev.quads[i].rotation
                  /\ vertices[i] = prev.vertices[i]
                  /\ gpu[i] = prev.gpu[i]

\* a frame with time elapsed has ended whose far pointer gave the one cell
\* of a corner as the rectangle
C23_Witness ==
    /\ pc = "idle"
    /\ frames >= 1
    /\ dt > 0
    /\ PointerFar
    /\ rect = <<area_width - 1, area_width - 1, area_width - 1, area_width - 1>>

----------------------------------------------------------------------------
(* The scene-switch keys *)

\* C24: after F1 the scene is a new quad scene and after F2 a new blur scene
\* with the default blur parameters, whichever scene was current; after any
\* other key the scene is of the kind it was.
C24_SwitchRebuilds ==
    hist.key # "none" =>
        /\ hist.key = "F1" => (variant = "round_quads" /\ blur = <<>>)
        /\ hist.key = "F2" =>
              /\ variant = "blurring"
              /\ blur = [kernel |-> 5, layers |-> 4, radius |-> 20,
                         is_diagonal |-> FALSE, is_dithered |-> FALSE]
              /\ matrix = MatDefault
        /\ hist.key \notin {"F1", "F2"} => variant = hist.replaced.variant

\* F2 was pressed in a blur scene whose parameters had been changed
C24_Witness ==
    /\ hist.key = "F2"
    /\ hist.replaced.variant = "blurring"
    /\ hist.replaced.blur.kernel # 5
    /\ hist.replaced.blur.layers # 4
    /\ blur.kernel = 5

----------------------------------------------------------------------------
(* The lattice *)

\* C25: for every cell (x, y) of the grid, closest_grid_idx_from_pos takes the
\* lattice position of the cell back to (x, y); the cell (0, 0) lies at
\* (-area_width / 2 * 16, -area_width / 2 * 16), the cell (area_width - 1, 0)
\* has the index area_width - 1, and area_width is the integer part of the
\* square root of the number of quads.
C25_ClosestInvertsLattice ==
    (call.fn = "lattice" /\ call.x < call.aw /\ call.y < call.aw) =>
        /\ call.coord = <<call.x, call.y>>
        /\ call.origin = <<0 - 8 * call.aw, 0 - 8 * call.aw>>
        /\ call.last = call.aw - 1
        /\ call.aw * call.aw <= call.n
        /\ call.n < (call.aw + 1) * (call.aw + 1)

\* a cell off the diagonal of a lattice of odd width, laid out for a number
\* of quads that is not a square
C25_Witness ==
    /\ call.fn = "lattice"
    /\ call.aw % 2 = 1
    /\ call.aw >= 3
    /\ call.n > call.aw * call.aw
    /\ call.x = call.aw - 1
    /\ call.y = 1
    /\ call.coord = <<call.x, 1>>

----------------------------------------------------------------------------
(* The passes of the Kawase frame.  Sample distances are in twentieths, the  *)
(* radius in tenths.                                                         *)

\* C26: in a frame of the Kawase scene with L layers, the L passes after the
\* seed draw (the downsampling loop) have the upsample flag false and the
\* radius as their distance, and the L passes after them (the upsampling
\* loop) have the flag true and half the radius as their distance.
C26_KawaseFlags ==
    (variant = "kawase" /\ pc # "panic") =>
        \A i \in DOMAIN log :
            /\ i \in 2..(blur.layers + 1) =>
                  /\ log[i].shader = "kawase"
                  /\ log[i].upsample = FALSE
                  /\ log[i].distance = 2 * blur.radius
            /\ i \in (blur.layers + 2)..(2 * blur.layers + 1) =>
                  /\ log[i].shader = "kawase"
                  /\ log[i].upsample = TRUE
                  /\ 2 * log[i].distance = 2 * blur.radius

\* a Kawase frame of at least two layers and a radius that is not the
\* default has drawn to the screen
C26_Witness ==
    /\ variant = "kawase"
    /\ pc = "composited"
    /\ blur.layers >= 2
    /\ blur.radius # 10
    /\ Len(log) = 2 * blur.layers + 2
    /\ log[2].upsample = FALSE
    /\ log[2 * blur.layers + 1].upsample = TRUE

----------------------------------------------------------------------------
(* The vertex buffer and the quads between the frames *)

\* C27: between the frames of the quad scene the vertex buffer holds, for
\* every one of the N_QUADS entities, the CPU-side vertex data of the entity,
\* and that data is the vertex data of the entity at the baseline intensity
\* 0.5 for the rotation it has now.
C27_BufferInSync ==
    (variant = "round_quads" /\ pc = "idle") =>
        \A i \in 0..(N_QUADS - 1) :
            /\ gpu[i] = vertices[i]
            /\ vertices[i] = QuadVertices(quads[i], IntensityUnit \div 2)

\* two frames have ended; the last one rotated an entity in a rectangle of
\* several rows and left another entity alone
C27_Witness ==
    /\ variant = "round_quads"
    /\ pc = "idle"
    /\ frames >= 2
    /\ rect[4] > rect[3]
    /\ \E i \in DOMAIN quads :
          /\ i \div area_width = rect[4]
          /\ quads[i].rotation # prev.quads[i].rotation
          /\ gpu[i].corners.rotation = quads[i].rotation
    /\ \E j \in DOMAIN quads : j \notin Touched(rect, area_width, N_QUADS)

----------------------------------------------------------------------------
(* The rectangle of a frame *)

\* C28: whatever the world position of the pointer, the rectangle of the
\* frame has x_beg <= x_end, y_beg <= y_end and y_end * area_width + x_end
\* below the number of quads, so every range update_vertices slices is
\* non-empty and lies inside the vertex array.
C28_RectInRange ==
    call.fn = "rect" =>
        /\ call.rect[1] <= call.rect[2]
        /\ call.rect[3] <= call.rect[4]
        /\ call.rect[4] * call.aw + call.rect[2] < call.n
        /\ call.uploads # <<>>
        /\ \A k \in DOMAIN call.uploads :
              /\ call.uploads[k].offset >= 0
              /\ call.uploads[k].size > 0
              /\ call.uploads[k].offset + call.uploads[k].size <= call.n * QuadBytes

\* the pointer is near a corner of the lattice and the rectangle a part of
\* the grid that ends in the last cell; the number of quads is a square
C28_Witness ==
    /\ call.fn = "rect"
    /\ call.n = call.aw * call.aw
    /\ call.rect[1] > 0
    /\ call.rect[3] > 0
    /\ call.rect[2] = call.aw - 1
    /\ call.rect[4] = call.aw - 1
    /\ call.rect[1] < call.rect[2]

----------------------------------------------------------------------------
(* The quads beyond the square *)

\* the entities of the partial row: their cell has the row area_width
Trailing == {i \in DOMAIN quads : GridIdxFromIdx(i, area_width)[2] = area_width}

\* C29: the N - area_width^2 entities with an index of area_width^2 or more,
\* those of row area_width, are no cell of any frame's rectangle: whatever
\* frames have run, they have the rotation and the vertex data, CPU-side and
\* in the vertex buffer, that RoundQuadsScene::new gave them.
C29_TrailingUntouched ==
    variant = "round_quads" =>
        /\ Trailing = (area_width * area_width)..(N_QUADS - 1)
        /\ Trailing \cap Touched(rect, area_width, N_QUADS) = {}
        /\ \E seed \in Seeds :
              \A i \in DOMAIN quads :
                  /\ quads[i].border_radius = QuadRandom(seed, i, area_width).border_radius
                  /\ i \in Trailing =>
                        /\ quads[i] = QuadRandom(seed, i, area_width)
                        /\ vertices[i] = QuadVertices(QuadRandom(seed, i, area_width), Half)
                        /\ gpu[i] = vertices[i]

\* two frames have run with time elapsed, the last one with the pointer on a
\* trailing entity; it rotated entities of the square
C29_Witness ==
    /\ variant = "round_quads"
    /\ pc = "idle"
    /\ frames >= 2
    /\ dt > 0
    /\ Trailing # {}
    /\ \E i \in Trailing : quads[i].position = world_mouse
    /\ \E j \in DOMAIN quads : quads[j].rotation # prev.quads[j].rotation

----------------------------------------------------------------------------
(* The debug groups of the Kawase frame *)

\* C30: in the Kawase scene no pop_debug_group finds the stack of debug
\* groups empty, whatever the layer count; no group is open before a frame
\* starts and none once it has drawn to the screen, while between the two
\* one or two groups are open if DEBUG_ENABLED is set; and no step of the
\* scene writes DEBUG_ENABLED.
C30_DebugGroupsBalanced ==
    /\ [](variant = "kawase" =>
             /\ ~debug.underflow
             /\ pc \in {"idle", "resized", "composited"} => debug.groups = <<>>
             /\ (pc \in {"seeded", "down", "up", "blit"} /\ debug.enabled) =>
                    Len(debug.groups) \in 1..2)
    /\ [][debug'.enabled = debug.enabled]_vars

\* a Kawase frame of several layers has drawn to the screen in a context
\* with debug groups, and all its groups are closed
C30_Witness ==
    /\ variant = "kawase"
    /\ debug.enabled
    /\ pc = "composited"
    /\ blur.layers >= 2
    /\ Len(log) = 2 * blur.layers + 2
    /\ debug.groups = <<>>

====
